---- MODULE Spec2Model ----
(***************************************************************************)
(* Model of the beam allocator of beams-bin-packer: find_combinations      *)
(* (src/beams.rs, the variant whose BeamPlan carries waste; the variant in  *)
(* src/src/beams.rs is the same loop without the waste field) and the      *)
(* driver loop of process_beams that calls it once per (beam, weld budget) *)
(* on one shared, progressively depleted pool of offcuts.                  *)
(*                                                                         *)
(* find_combinations is modelled twice from the same lines: as the steps   *)
(* Finish / Extend / NoPieceFits / BudgetExhausted, one per loop iteration *)
(* or exit, and as the function FindCombinations, which runs the loop with *)
(* exactly the tie-break of Rust's min_by_key (first minimum) and          *)
(* max_by_key (last maximum).  The steps draw the index of the piece from  *)
(* every position that holds the extremal length, so they cover any        *)
(* tie-break.                                                              *)
(*                                                                         *)
(* The requirement list is an input read front to back: its length and the *)
(* length of each beam's welds list are fixed when they are read, and the  *)
(* value of an element is drawn when the loop reaches it.  Beam sizes are  *)
(* non-increasing, as load_beam_requirements sorts them descending.        *)
(* Printing and the statistics that only feed printing are left out.       *)
(***************************************************************************)
EXTENDS Integers, Sequences, FiniteSets

\* Bounds of the model.
MaxPiece == 3
MaxPool == 3
MaxTarget == 6
MaxWelds == 2
MaxBeams == 2
MaxVariants == 2

VARIABLES
    offcuts,        \* process_beams: the shared pool, Vec<usize>
    total_beams,    \* requirements.len()
    idx,            \* number of beams the outer loop has started
    beam_size,      \* beam.size of the current beam
    n_welds,        \* beam.welds.len() of the current beam
    w,              \* position of the inner iterator over beam.welds
    pc,             \* "driver" | "loop" | "returned" | "end"
    target_length,  \* find_combinations: argument
    max_welds,      \* find_combinations: argument
    used_offcuts,   \* find_combinations: local Vec
    total,          \* find_combinations: local sum
    iter,           \* find_combinations: iterations of the for loop completed
    plan,           \* the Option<BeamPlan> returned by the last call
    pool0,          \* history: the pool when the current call was entered
    initial,        \* history: the pool process_beams was given
    consumed,       \* history: pieces of every plan returned so far, largest first
    calls           \* history: calls of find_combinations made for the current beam

vars == << offcuts, total_beams, idx, beam_size, n_welds, w, pc, target_length,
           max_welds, used_offcuts, total, iter, plan, pool0, initial, consumed,
           calls >>

Pieces == 1..MaxPiece

----------------------------------------------------------------------------
\* Vec and iterator helpers.

\* Faulty variant: the chosen piece is pushed to used_offcuts but never removed.
RemoveAtKeepsPiece(s, i) == s

\* Vec::remove(index), 1-based here.
RemoveAt(s, i) == SubSeq(s, 1, i - 1) \o SubSeq(s, i + 1, Len(s))

RECURSIVE InsertDesc(_, _)
InsertDesc(x, s) ==
    IF s = << >> THEN << x >>
    ELSE IF x >= Head(s) THEN << x >> \o s
    ELSE << Head(s) >> \o InsertDesc(x, Tail(s))

\* sort_unstable_by(|a, b| b.cmp(a)): the elements in descending order.
RECURSIVE SortDesc(_)
SortDesc(s) == IF s = << >> THEN << >> ELSE InsertDesc(Head(s), SortDesc(Tail(s)))

\* Faulty variant: the loop bound is the number of welds, not of pieces.
max_pieces_is_max_welds(mw) == mw

\* let max_pieces = max_welds + 1
max_pieces(mw) == mw + 1

\* usize::saturating_sub
saturating_sub(a, b) == IF a >= b THEN a - b ELSE 0

\* Faulty variant: strategy 1 without its filter.
FinishCandidatesUnfiltered(pool, remaining) == DOMAIN pool

\* Faulty variant: strategy 1 with > for >=.
FinishCandidatesStrict(pool, remaining) == { i \in DOMAIN pool : pool[i] > remaining }

\* Strategy 1 filter: the indices of the pieces that can complete the beam.
FinishCandidates(pool, remaining) == { i \in DOMAIN pool : pool[i] >= remaining }

\* Faulty variant: strategy 2 with the comparison reversed.
ExtendCandidatesReversed(pool, remaining) == { i \in DOMAIN pool : pool[i] >= remaining }

\* Strategy 2 filter: the indices of the pieces that fit in what is missing.
ExtendCandidates(pool, remaining) == { i \in DOMAIN pool : pool[i] <= remaining }

\* Iterator::min_by_key: the first of the elements with the minimum key.
min_by_key(pool, S) ==
    CHOOSE i \in S : \A j \in S : pool[i] < pool[j] \/ (pool[i] = pool[j] /\ i <= j)

\* Iterator::max_by_key: the last of the elements with the maximum key.
max_by_key(pool, S) ==
    CHOOSE i \in S : \A j \in S : pool[i] > pool[j] \/ (pool[i] = pool[j] /\ i >= j)

\* Faulty variant: the first scan takes any candidate, not a minimal one.
AnyChoice(pool, S) == S

\* Every index a minimum scan may return, whatever its tie-break.
MinChoices(pool, S) == { i \in S : \A j \in S : pool[i] <= pool[j] }

\* Faulty variant: the second scan takes the smallest candidate.
SmallestChoices(pool, S) == { i \in S : \A j \in S : pool[i] <= pool[j] }

\* Every index a maximum scan may return, whatever its tie-break.
MaxChoices(pool, S) == { i \in S : \A j \in S : pool[i] >= pool[j] }

None == [some |-> FALSE]

\* The BeamPlan built on success.
BeamPlan(tot, used, target) ==
    [some |-> TRUE, total |-> tot, welds |-> Len(used) - 1,
     used_offcuts |-> used, waste |-> tot - target]

\* Faulty variant: the failure path sorts but never pushes the used offcuts back.
RestoreForgets(pool, used) == SortDesc(pool)

\* Faulty variant: the failure path pushes the used offcuts back and does not sort.
RestoreUnsorted(pool, used) == pool \o used

\* The failure path: push every used offcut back, then sort descending.
Restore(pool, used) == SortDesc(pool \o used)

\* find_combinations as a function of its arguments, with Rust's tie-breaks:
\* the returned Option<BeamPlan> and the pool it leaves.
RECURSIVE Loop(_, _, _, _, _, _)
Loop(pool, used, tot, i, target, limit) ==
    IF i >= limit
    THEN [plan |-> None, offcuts |-> Restore(pool, used)]
    ELSE LET remaining == saturating_sub(target, tot)
             fin == FinishCandidates(pool, remaining)
             ext == ExtendCandidates(pool, remaining)
         IN  IF fin # {}
             THEN LET k == min_by_key(pool, fin)
                  IN  [plan |-> BeamPlan(tot + pool[k], Append(used, pool[k]), target),
                       offcuts |-> RemoveAt(pool, k)]
             ELSE IF ext # {}
             THEN LET k == max_by_key(pool, ext)
                  IN  Loop(RemoveAt(pool, k), Append(used, pool[k]), tot + pool[k],
                           i + 1, target, limit)
             ELSE [plan |-> None, offcuts |-> Restore(pool, used)]

FindCombinations(pool, target, mw) == Loop(pool, << >>, 0, 0, target, max_pieces(mw))

----------------------------------------------------------------------------
\* The state machine.

RawPools == UNION { [1..n -> Pieces] : n \in 0..MaxPool }

\* load_offcuts sorts what it read; process_beams starts with no beam read.
Init ==
    /\ \E raw \in RawPools : offcuts = SortDesc(raw)
    /\ total_beams \in 0..MaxBeams
    /\ idx = 0
    /\ beam_size = MaxTarget
    /\ n_welds = 0
    /\ w = 0
    /\ pc = "driver"
    /\ target_length = 0
    /\ max_welds = 0
    /\ used_offcuts = << >>
    /\ total = 0
    /\ iter = 0
    /\ plan = None
    /\ pool0 = offcuts
    /\ initial = offcuts
    /\ consumed = << >>
    /\ calls = 0

frame == << target_length, max_welds, used_offcuts, total, iter, plan, pool0 >>

\* The outer loop takes the next requirement once the inner loop is over.
NextBeam ==
    /\ pc = "driver"
    /\ w = n_welds
    /\ idx < total_beams
    /\ \E size \in 1..beam_size, n \in 0..MaxVariants :
          /\ beam_size' = size
          /\ n_welds' = n
    /\ idx' = idx + 1
    /\ w' = 0
    /\ calls' = 0
    /\ UNCHANGED << offcuts, total_beams, pc, frame, initial, consumed >>

\* The inner loop takes the next weld budget and enters find_combinations.
Call ==
    /\ pc = "driver"
    /\ w < n_welds
    /\ \E mw \in 0..MaxWelds : max_welds' = mw
    /\ w' = w + 1
    /\ calls' = calls + 1
    /\ target_length' = beam_size
    /\ used_offcuts' = << >>
    /\ total' = 0
    /\ iter' = 0
    /\ pool0' = offcuts
    /\ pc' = "loop"
    /\ UNCHANGED << offcuts, total_beams, idx, beam_size, n_welds, plan, initial,
                    consumed >>

\* Strategy 1: a piece completes the beam; the call returns Some(plan).
Finish ==
    /\ pc = "loop"
    /\ iter < max_pieces(max_welds)
    /\ LET remaining == saturating_sub(target_length, total)
       IN  \E k \in MinChoices(offcuts, FinishCandidates(offcuts, remaining)) :
              /\ used_offcuts' = Append(used_offcuts, offcuts[k])
              /\ offcuts' = RemoveAt(offcuts, k)
              /\ total' = total + offcuts[k]
              /\ plan' = BeamPlan(total', used_offcuts', target_length)
              /\ consumed' = SortDesc(consumed \o used_offcuts')
    /\ pc' = "returned"
    /\ UNCHANGED << total_beams, idx, beam_size, n_welds, w, target_length,
                    max_welds, iter, pool0, initial, calls >>

\* Strategy 2: no piece completes the beam; take the largest that fits.
Extend ==
    /\ pc = "loop"
    /\ iter < max_pieces(max_welds)
    /\ LET remaining == saturating_sub(target_length, total)
       IN  /\ FinishCandidates(offcuts, remaining) = {}
           /\ \E k \in MaxChoices(offcuts, ExtendCandidates(offcuts, remaining)) :
                 /\ used_offcuts' = Append(used_offcuts, offcuts[k])
                 /\ offcuts' = RemoveAt(offcuts, k)
                 /\ total' = total + offcuts[k]
    /\ iter' = iter + 1
    /\ UNCHANGED << total_beams, idx, beam_size, n_welds, w, pc, target_length,
                    max_welds, plan, pool0, initial, consumed, calls >>

\* Neither scan finds a piece: break, restore the pool, return None.
NoPieceFits ==
    /\ pc = "loop"
    /\ iter < max_pieces(max_welds)
    /\ LET remaining == saturating_sub(target_length, total)
       IN  /\ FinishCandidates(offcuts, remaining) = {}
           /\ ExtendCandidates(offcuts, remaining) = {}
    /\ offcuts' = Restore(offcuts, used_offcuts)
    /\ used_offcuts' = << >>
    /\ plan' = None
    /\ pc' = "returned"
    /\ UNCHANGED << total_beams, idx, beam_size, n_welds, w, target_length,
                    max_welds, total, iter, pool0, initial, consumed, calls >>

\* The for loop ran max_welds + 1 times: restore the pool, return None.
BudgetExhausted ==
    /\ pc = "loop"
    /\ iter >= max_pieces(max_welds)
    /\ offcuts' = Restore(offcuts, used_offcuts)
    /\ used_offcuts' = << >>
    /\ plan' = None
    /\ pc' = "returned"
    /\ UNCHANGED << total_beams, idx, beam_size, n_welds, w, target_length,
                    max_welds, total, iter, pool0, initial, consumed, calls >>

\* Faulty variant: a successful variant ends the inner loop of its beam.
ReturnBreakOnSuccess ==
    /\ pc = "returned"
    /\ pc' = "driver"
    /\ w' = IF plan.some THEN n_welds ELSE w
    /\ UNCHANGED << offcuts, total_beams, idx, beam_size, n_welds, frame,
                    initial, consumed, calls >>

\* Either match arm: report the outcome and go on with the inner loop.
Return ==
    /\ pc = "returned"
    /\ pc' = "driver"
    /\ UNCHANGED << offcuts, total_beams, idx, beam_size, n_welds, w, frame,
                    initial, consumed, calls >>

\* Both loops are over: process_beams returns.
Finished ==
    /\ pc = "driver"
    /\ w = n_welds
    /\ idx = total_beams
    /\ pc' = "end"
    /\ UNCHANGED << offcuts, total_beams, idx, beam_size, n_welds, w, frame,
                    initial, consumed, calls >>

Next ==
    \/ NextBeam
    \/ Call
    \/ Finish
    \/ Extend
    \/ NoPieceFits
    \/ BudgetExhausted
    \/ Return
    \/ Finished

Spec == Init /\ [][Next]_vars

----------------------------------------------------------------------------
\* Vocabulary of the properties.

\* The multiset of a sequence of pieces: how often each length occurs.
BagOf(s) == [v \in 0..(MaxPiece + 1) |-> Cardinality({ i \in DOMAIN s : s[i] = v })]

BagPlus(a, b) == [v \in DOMAIN a |-> a[v] + b[v]]

RECURSIVE Sum(_)
Sum(s) == IF s = << >> THEN 0 ELSE Head(s) + Sum(Tail(s))

IsSortedDesc(s) == \A i \in 1..(Len(s) - 1) : s[i] >= s[i + 1]

PlanPieces == IF plan.some THEN plan.used_offcuts ELSE << >>

Succeeded == pc = "returned" /\ plan.some

Failed == pc = "returned" /\ ~plan.some

\* C1: every plan find_combinations returns reaches the target with 1 to
\* max_welds + 1 pieces, welds is the number of pieces minus one, total is the
\* sum of the pieces, and waste is total - target_length and not negative.
C1_PlanContract ==
    Succeeded =>
        /\ plan.total >= target_length
        /\ Len(plan.used_offcuts) >= 1
        /\ Len(plan.used_offcuts) <= max_welds + 1
        /\ plan.welds = Len(plan.used_offcuts) - 1
        /\ plan.total = Sum(plan.used_offcuts)
        /\ plan.waste = Sum(plan.used_offcuts) - target_length
        /\ plan.waste >= 0

\* A plan of two pieces that overshoots the target has been returned.
C1_Witness == Succeeded /\ plan.welds = 1 /\ plan.waste > 0

\* C2: after every call the pool together with the returned pieces is the
\* multiset the pool was before the call, and at every point between calls the
\* pool together with the pieces of all plans returned so far is the initial
\* pool.
C2_PoolConservation ==
    /\ pc = "returned" => BagPlus(BagOf(offcuts), BagOf(PlanPieces)) = BagOf(pool0)
    /\ pc # "loop" => BagPlus(BagOf(offcuts), BagOf(consumed)) = BagOf(initial)

\* A second plan has been returned after pieces were already consumed.
C2_Witness ==
    /\ Succeeded
    /\ Len(plan.used_offcuts) = 2
    /\ Len(consumed) > Len(plan.used_offcuts)

\* C3: a call that returns no plan leaves the pool element for element as it
\* was before the call, and a call that returns a plan leaves it strictly
\* shorter.
C3_MutationIffSuccess ==
    /\ Failed => offcuts = pool0
    /\ Succeeded => Len(offcuts) < Len(pool0)

\* A call failed after two extending steps took pieces of different lengths.
C3_Witness ==
    /\ Failed
    /\ iter = 2
    /\ Len(pool0) = 3
    /\ pool0[1] > pool0[2]

\* C4: the pool is sorted descending in every reachable state.
C4_PoolSorted == IsSortedDesc(offcuts)

\* A failed call has put back two pieces of different lengths into a pool
\* that still held a smaller one.
C4_Witness ==
    /\ Failed
    /\ iter = 2
    /\ Len(offcuts) = 3
    /\ offcuts[1] > offcuts[2]
    /\ offcuts[2] > offcuts[3]

\* C5: the outcome of a call (plan and resulting pool, as sequences of
\* lengths) is the value of FindCombinations on the call's arguments, whichever
\* of several equal pieces each scan picked; and a failed call leaves a state
\* in which the same call fails again and leaves the pool as it is.
C5_Determinism ==
    pc = "returned" =>
        LET r == FindCombinations(pool0, target_length, max_welds)
        IN  /\ r.plan = plan
            /\ r.offcuts = offcuts
            /\ ~plan.some =>
                  FindCombinations(offcuts, target_length, max_welds)
                      = [plan |-> None, offcuts |-> offcuts]

\* A plan of two pieces was returned from a pool whose two largest pieces are
\* equal, the first taken by the extending scan.
C5_Witness ==
    /\ Succeeded
    /\ Len(plan.used_offcuts) = 2
    /\ Len(pool0) = 3
    /\ pool0[1] = pool0[2]
    /\ plan.used_offcuts[1] = pool0[1]
    /\ plan.used_offcuts[2] = pool0[3]

Lengths(s) == { s[i] : i \in DOMAIN s }

SetMin(S) == CHOOSE x \in S : \A y \in S : x <= y

SetMax(S) == CHOOSE x \in S : \A y \in S : x >= y

Last(s) == s[Len(s)]

\* The lengths still in the pool pool0 after the pieces of taken have left it.
LengthsLeft(taken) ==
    { v \in Pieces : BagOf(pool0)[v] > BagOf(taken)[v] }

\* One iteration: a covering piece ends the call with the smallest covering
\* length; otherwise the largest length of a non-empty pool is taken and the
\* loop goes on.
C6_Iteration ==
    (pc = "loop" /\ iter < max_welds + 1) =>
        LET remaining == saturating_sub(target_length, total)
            covering == { p \in Lengths(offcuts) : p >= remaining }
        IN  IF covering # {}
            THEN /\ pc' = "returned"
                 /\ plan'.some
                 /\ Last(plan'.used_offcuts) = SetMin(covering)
                 /\ Len(plan'.used_offcuts) = Len(used_offcuts) + 1
                 /\ BagPlus(BagOf(offcuts'), BagOf(<< SetMin(covering) >>))
                        = BagOf(offcuts)
            ELSE offcuts # << >> =>
                 /\ pc' = "loop"
                 /\ iter' = iter + 1
                 /\ used_offcuts' = Append(used_offcuts, SetMax(Lengths(offcuts)))
                 /\ BagPlus(BagOf(offcuts'), BagOf(<< SetMax(Lengths(offcuts)) >>))
                        = BagOf(offcuts)

\* In a returned plan every piece but the last is the largest of the pool when
\* it was taken, and the last is the smallest that covers what was missing.
C6_PlanShape ==
    Succeeded =>
        \A j \in 1..Len(plan.used_offcuts) :
            LET before == SubSeq(plan.used_offcuts, 1, j - 1)
                left == LengthsLeft(before)
            IN  IF j < Len(plan.used_offcuts)
                THEN plan.used_offcuts[j] = SetMax(left)
                ELSE plan.used_offcuts[j]
                        = SetMin({ v \in left : v >= target_length - Sum(before) })

\* C6: the selection rule of each iteration, and the shape of every returned
\* plan that follows from it.
C6_SelectionRule == [][C6_Iteration]_vars /\ []C6_PlanShape

\* The analogue of pool [60,50,10], target 100, max_welds 1: the largest piece
\* first, then the smallest that covers the rest, one piece left.
C6_Witness ==
    /\ Succeeded
    /\ pool0 = << 3, 3, 1 >>
    /\ target_length = 5
    /\ max_welds = 1
    /\ plan.used_offcuts = << 3, 3 >>
    /\ plan.total = 6
    /\ offcuts = << 1 >>

RECURSIVE SumAt(_, _)
SumAt(s, S) ==
    IF S = {} THEN 0
    ELSE LET i == CHOOSE x \in S : TRUE IN s[i] + SumAt(s, S \ { i })

\* Some subset of at most n pieces of the pool before the call reaches the target.
Reachable(n) ==
    \E S \in SUBSET DOMAIN pool0 :
        Cardinality(S) <= n /\ SumAt(pool0, S) >= target_length

MinOf(a, b) == IF a <= b THEN a ELSE b

\* C7: a call fails exactly when the max_welds + 1 largest pieces of the pool
\* sum to less than the target, that is when no subset of at most
\* max_welds + 1 pieces reaches it; a plan uses the fewest pieces any subset
\* needs.
C7_Completeness ==
    pc = "returned" =>
        /\ ~plan.some <=>
              Sum(SubSeq(SortDesc(pool0), 1, MinOf(max_welds + 1, Len(pool0))))
                  < target_length
        /\ ~plan.some <=> ~Reachable(max_welds + 1)
        /\ plan.some => ~Reachable(Len(plan.used_offcuts) - 1)

\* A call failed on a pool whose pieces together would reach the target.
C7_Witness ==
    /\ Failed
    /\ Sum(pool0) >= target_length
    /\ max_welds = 1

\* C8 (as amended): at the head of every iteration the pieces chosen so far
\* sum to less than the target, and in a returned plan the pieces before the
\* last sum to less than the target: no piece follows an exact match.
C8_NoExactSumMidLoop ==
    /\ pc = "loop" => total < target_length
    /\ Succeeded =>
          Sum(SubSeq(plan.used_offcuts, 1, Len(plan.used_offcuts) - 1))
              < target_length

\* A plan of two pieces that sum exactly to the target has been returned.
C8_Witness ==
    /\ Succeeded
    /\ Len(plan.used_offcuts) = 2
    /\ plan.total = target_length

\* C8 (as stated): when two or more pieces chosen by a call sum exactly to the
\* target, the returned plan holds one further piece beyond them.
C8_ExtraPieceAfterExactSum ==
    Succeeded =>
        \A k \in 2..Len(plan.used_offcuts) :
            Sum(SubSeq(plan.used_offcuts, 1, k)) = target_length
                => k < Len(plan.used_offcuts)

\* The break is taken only on an empty pool; on a non-empty pool an iteration
\* takes exactly one piece.
C9_Iteration ==
    /\ (pc = "loop" /\ pc' = "returned" /\ ~plan'.some /\ iter < max_welds + 1)
          => offcuts = << >>
    /\ (pc = "loop" /\ iter < max_welds + 1 /\ offcuts # << >>)
          => Len(offcuts') = Len(offcuts) - 1

\* A failed call either used its whole budget without reaching the target or
\* had taken every piece of the pool when it stopped.
C9_FailureCauses ==
    Failed =>
        \/ iter = max_welds + 1 /\ total < target_length
        \/ iter < max_welds + 1 /\ iter = Len(pool0) /\ total = Sum(pool0)

\* C9: the early stop happens only on an empty pool, so a failure is an empty
\* pool at an iteration or an exhausted budget with total < target_length.
C9_EarlyStopOnlyWhenEmpty == [][C9_Iteration]_vars /\ []C9_FailureCauses

\* The analogue of pool [30,20], target 100: a call took both pieces of the
\* pool, stopped before its budget was used and restored the pool.
C9_Witness ==
    /\ Failed
    /\ pool0 = << 3, 2 >>
    /\ target_length = 6
    /\ iter = 2
    /\ iter < max_welds + 1
    /\ offcuts = pool0

\* a is a sub-multiset of b.
SubBag(a, b) == \A v \in DOMAIN a : a[v] <= b[v]

\* The driver's steps: a call takes the next weld budget of the current beam
\* and runs on the pool as the last call left it; either outcome goes on with
\* the same beam; a beam is left only after one call per weld budget; the run
\* ends only after the last beam; no step puts a consumed piece back.
C10_DriverStep ==
    /\ (pc = "driver" /\ pc' = "loop") =>
          /\ w < n_welds
          /\ w' = w + 1
          /\ idx' = idx
          /\ target_length' = beam_size
          /\ offcuts' = offcuts
          /\ pool0' = offcuts
    /\ (pc = "returned" /\ pc' # "returned") =>
          /\ pc' = "driver"
          /\ w' = w
          /\ idx' = idx
          /\ offcuts' = offcuts
    /\ idx' # idx => (idx' = idx + 1 /\ calls = n_welds /\ beam_size' <= beam_size)
    /\ (pc # "end" /\ pc' = "end") => (idx = total_beams /\ calls = n_welds)
    /\ (pc # "loop" /\ pc' # "loop") => offcuts' = offcuts
    /\ (pc = "loop" /\ pc' = "returned") => SubBag(BagOf(offcuts'), BagOf(pool0))
    /\ SubBag(BagOf(consumed), BagOf(consumed'))

\* C10: one call per (beam, weld budget) pair, in order, on the pool left by
\* the earlier calls, whatever the outcomes, and no consumption is undone.
C10_DriverOrdering == [][C10_DriverStep]_vars /\ [](calls = w /\ idx <= total_beams)

\* The second beam's second weld budget is being tried after its first one
\* returned a plan.
C10_Witness ==
    /\ pc = "loop"
    /\ idx = 2
    /\ calls = 2
    /\ plan.some

====
